---- MODULE Spec2Model ----
(***************************************************************************)
(* The ownership-scoped recipe / tag API of app/recipe (views.py and       *)
(* serializers.py) as a state machine over the stored Recipe rows, Tag     *)
(* rows and the recipe-tag association table.  Every HTTP operation of     *)
(* RecipeViewSet and TagViewSet is an operator from the current tables and *)
(* the request to the response and the tables it leaves (...Result), and   *)
(* an action that applies it; the status of the last response is part of   *)
(* the state.                                                              *)
(***************************************************************************)
EXTENDS Integers, Sequences, FiniteSets, TLC

VARIABLES recipes, tags, recipe_tags, nextRecipeId, nextTagId, status, inflight

store == <<recipes, tags, recipe_tags, nextRecipeId, nextTagId>>
vars == <<recipes, tags, recipe_tags, nextRecipeId, nextTagId, status, inflight>>

\* ------------------------------------------------------------------ bounds
\* Recipe rows and Tag rows ever inserted (the autoincrement ids handed out),
\* and the longest "tags" list of a create payload.
MaxRecipes == 2
MaxTags == 2
MaxTagList == 2

\* ------------------------------------------------------------ value domains
Users == {"u1", "u2"}
\* A request that carries no valid token.
Anon == "anon"
Clients == Users \cup {Anon}
\* Tag names; NameRank is their collation order.
Names == {"Dinner", "Thai"}
NameRank(n) == IF n = "Dinner" THEN 1 ELSE 2
\* Values of the scalar recipe fields; Bad fails the numeric fields' validation.
Vals == {"x", "y"}
Bad == "bad"
Blank == ""
\* The body of a response that carries no rows.  A body is a sequence of
\* rendered rows: the list's rows, or the one row of a detail response.
None == <<>>

RecipeIds == 1..MaxRecipes
TagIds == 1..MaxTags

RECURSIVE SeqsUpTo(_, _)
SeqsUpTo(S, n) ==
    IF n = 0 THEN {<<>>}
    ELSE LET shorter == SeqsUpTo(S, n - 1)
         IN shorter \cup {Append(s, x) : s \in shorter, x \in S}

Range(s) == {s[i] : i \in DOMAIN s}

\* --------------------------------------------------------------- the models
\* Recipe: the owner and the five scalar columns.  Tag: owner and name.
Fields == {"title", "time_minutes", "price", "link", "description"}
RecipeAttrs == {"user"} \cup Fields
\* Columns a create payload must carry (the others default to blank).
Required == {"title", "time_minutes", "price"}
Numeric == {"time_minutes", "price"}

\* ------------------------------------------------------------- serializers
\* RecipeSerializer.Meta: the fields a client can write (id is read-only,
\* tags is the nested serializer, handled apart).
\* (WritableWithUser: a Meta.fields that also declared the owner.)
WritableWithUser == Fields \cup {"user"}
WritableFields == Fields

\* A payload is [attrs, hasTags, tags]: attrs maps the keys the client sent
\* (among Fields and "user") to their values.
\* to_internal_value: keep the declared writable fields, drop every other key.
ToInternalValue(P) ==
    [k \in (DOMAIN P.attrs) \cap WritableFields |-> P.attrs[k]]

\* is_valid: required fields present unless partial, numeric fields numeric.
IsValid(P, partial) ==
    /\ partial \/ Required \subseteq DOMAIN P.attrs
    /\ \A k \in Numeric \cap DOMAIN P.attrs : P.attrs[k] # Bad

\* TagSerializer.to_representation of row t of table T
TagData(T, t) == [id |-> t, name |-> T[t].name]
\* recipe.tags.all() over the association table L
TagsOfRecipe(T, L, rid) == {t \in DOMAIN T : <<rid, t>> \in L}
\* RecipeSerializer.to_representation of row rid of table R: the owner is
\* not rendered, the tags are nested.
RecipeData(R, T, L, rid) ==
    [id |-> rid,
     title |-> R[rid]["title"],
     time_minutes |-> R[rid]["time_minutes"],
     price |-> R[rid]["price"],
     link |-> R[rid]["link"],
     description |-> R[rid]["description"],
     tags |-> {TagData(T, t) : t \in TagsOfRecipe(T, L, rid)}]

\* ---------------------------------------------------------------- responses
Ok(d) == [status |-> 200, data |-> d]
Created(d) == [status |-> 201, data |-> d]
NoContent == [status |-> 204, data |-> None]
BadRequest == [status |-> 400, data |-> None]
Unauthorized == [status |-> 401, data |-> None]
NotFound == [status |-> 404, data |-> None]
MethodNotAllowed == [status |-> 405, data |-> None]
ServerError == [status |-> 500, data |-> None]

\* The tables as one value, and the outcome of a request: its response and
\* the tables after it.
Db == [recipes |-> recipes, tags |-> tags, recipe_tags |-> recipe_tags,
       nextRecipeId |-> nextRecipeId, nextTagId |-> nextTagId]
Outcome(resp, db) == [response |-> resp, db |-> db]
ReadOnly(resp) == Outcome(resp, Db)

Apply(r) ==
    /\ status' = r.response.status
    /\ recipes' = r.db.recipes
    /\ tags' = r.db.tags
    /\ recipe_tags' = r.db.recipe_tags
    /\ nextRecipeId' = r.db.nextRecipeId
    /\ nextTagId' = r.db.nextTagId
    /\ UNCHANGED inflight

\* permission_classes = (IsAuthenticated,) with TokenAuthentication
\* (AllowAny: the permission class the views do not use.)
AllowAny(c) == TRUE
IsAuthenticated(c) == c \in Users

\* ------------------------------------------------------------ RecipeViewSet
\* get_queryset: the requester's recipes only.
\* (RecipeQuerysetAll: the class attribute queryset, without the filter.)
RecipeQuerysetAll(u) == DOMAIN recipes
RecipeViewSet_get_queryset(u) == {id \in DOMAIN recipes : recipes[id]["user"] = u}

\* order_by("-id")
RECURSIVE OrderByIdDesc(_)
OrderByIdDesc(S) ==
    IF S = {} THEN <<>>
    ELSE LET m == CHOOSE x \in S : \A y \in S : y <= x
         IN <<m>> \o OrderByIdDesc(S \ {m})

\* GET /api/recipe/recipes/
RecipeListResult(c) ==
    IF ~IsAuthenticated(c) THEN ReadOnly(Unauthorized)
    ELSE LET ids == OrderByIdDesc(RecipeViewSet_get_queryset(c))
         IN ReadOnly(Ok([i \in DOMAIN ids |-> RecipeData(recipes, tags, recipe_tags, ids[i])]))

\* GET /api/recipe/recipes/{id}/
RecipeRetrieveResult(c, id) ==
    IF ~IsAuthenticated(c) THEN ReadOnly(Unauthorized)
    ELSE IF id \notin RecipeViewSet_get_queryset(c) THEN ReadOnly(NotFound)
    ELSE ReadOnly(Ok(<<RecipeData(recipes, tags, recipe_tags, id)>>))

\* ------------------------------------------------------- RecipeSerializer
\* Recipe.objects.create(**validated_data): columns not supplied are blank.
NewInstance(vd) == [k \in RecipeAttrs |-> IF k \in DOMAIN vd THEN vd[k] ELSE Blank]

\* Tag.objects.get_or_create(user=auth_user, name=...): the rows the lookup
\* matches.  The Tag model carries no uniqueness constraint on (user, name).
\* (TagLookupByName: the lookup without user=auth_user.)
TagLookupByName(T, u, name) == {t \in DOMAIN T : T[t].name = name}
TagLookup(T, u, name) == {t \in DOMAIN T : T[t].user = u /\ T[t].name = name}

\* The loop of RecipeSerializer.create over the supplied tags, on the running
\* state st = [tags, next, links, ok]: per tag, get_or_create then
\* recipe.tags.add.  get() raising MultipleObjectsReturned ends the request
\* (ok = FALSE) with the writes made so far in place.
RECURSIVE CreateTags(_, _, _, _)
CreateTags(st, u, rid, ts) ==
    IF ts = <<>> \/ ~st.ok THEN st
    ELSE LET found == TagLookup(st.tags, u, Head(ts))
         IN IF Cardinality(found) > 1 THEN [st EXCEPT !.ok = FALSE]
            ELSE IF found = {}
            THEN CreateTags(
                     [st EXCEPT !.tags = @ @@ (st.next :> [user |-> u, name |-> Head(ts)]),
                                !.next = @ + 1,
                                !.links = @ \cup {<<rid, st.next>>}],
                     u, rid, Tail(ts))
            ELSE CreateTags(
                     [st EXCEPT !.links = @ \cup {<<rid, CHOOSE t \in found : TRUE>>}],
                     u, rid, Tail(ts))

\* perform_create: serializer.save(user=self.request.user); the keyword wins
\* over whatever validated_data holds.
perform_create(vd, u) == [k \in (DOMAIN vd) \cup {"user"} |-> IF k = "user" THEN u ELSE vd[k]]

\* Whether a failed request's writes are rolled back (ATOMIC_REQUESTS) or
\* stay (autocommit): the settings are not part of the sources.
AtomicRequests == BOOLEAN

\* POST /api/recipe/recipes/
RecipeCreateResult(c, P, atomic) ==
    IF ~IsAuthenticated(c) THEN ReadOnly(Unauthorized)
    ELSE IF ~IsValid(P, FALSE) THEN ReadOnly(BadRequest)
    ELSE LET rid == nextRecipeId
             row == NewInstance(perform_create(ToInternalValue(P), c))
             st  == CreateTags([tags |-> tags, next |-> nextTagId,
                                links |-> recipe_tags, ok |-> TRUE],
                               c, rid, IF P.hasTags THEN P.tags ELSE <<>>)
             db  == [recipes |-> recipes @@ (rid :> row), tags |-> st.tags,
                     recipe_tags |-> st.links, nextRecipeId |-> rid + 1,
                     nextTagId |-> st.next]
         IN IF st.ok
            THEN Outcome(Created(<<RecipeData(db.recipes, db.tags, db.recipe_tags, rid)>>), db)
            ELSE Outcome(ServerError, IF atomic THEN Db ELSE db)

\* ModelSerializer.update: setattr for every validated attribute, then save.
UpdateInstanceReplace(inst, vd) ==
    [k \in DOMAIN inst |-> IF k \in DOMAIN vd THEN vd[k]
                           ELSE IF k \in {"link", "description"} THEN Blank ELSE inst[k]]
UpdateInstance(inst, vd) == [k \in DOMAIN inst |-> IF k \in DOMAIN vd THEN vd[k] ELSE inst[k]]

\* PUT (partial = FALSE) and PATCH (partial = TRUE) /api/recipe/recipes/{id}/
\* RecipeSerializer overrides create only: an update whose validated data
\* holds the nested "tags" fails the serializer's nested-write assertion.
RecipeUpdateResult(c, id, P, partial) ==
    IF ~IsAuthenticated(c) THEN ReadOnly(Unauthorized)
    ELSE IF id \notin RecipeViewSet_get_queryset(c) THEN ReadOnly(NotFound)
    ELSE IF ~IsValid(P, partial) THEN ReadOnly(BadRequest)
    ELSE IF P.hasTags THEN ReadOnly(ServerError)
    ELSE LET R == [recipes EXCEPT ![id] = UpdateInstance(@, ToInternalValue(P))]
         IN Outcome(Ok(<<RecipeData(R, tags, recipe_tags, id)>>), [Db EXCEPT !.recipes = R])

\* instance.delete(): the row and its rows of the association table go, the
\* Tag rows stay.
DeleteRecipeAndTags(id) ==
    [Db EXCEPT !.recipes = [r \in (DOMAIN recipes) \ {id} |-> recipes[r]],
               !.recipe_tags = {l \in recipe_tags : l[1] # id},
               !.tags = [t \in (DOMAIN tags) \ TagsOfRecipe(tags, recipe_tags, id) |-> tags[t]]]
DeleteRecipe(id) ==
    [Db EXCEPT !.recipes = [r \in (DOMAIN recipes) \ {id} |-> recipes[r]],
               !.recipe_tags = {l \in recipe_tags : l[1] # id}]

\* DELETE /api/recipe/recipes/{id}/
RecipeDestroyResult(c, id) ==
    IF ~IsAuthenticated(c) THEN ReadOnly(Unauthorized)
    ELSE IF id \notin RecipeViewSet_get_queryset(c) THEN ReadOnly(NotFound)
    ELSE Outcome(NoContent, DeleteRecipe(id))

\* --------------------------------------------------------------- TagViewSet
\* get_queryset: the requester's tags only.
TagViewSet_get_queryset(u) == {t \in DOMAIN tags : tags[t].user = u}

\* The integrity constraints of the Tag table on a table T about to be
\* stored: owner and name only, the name "not guaranteed unique", so every
\* table passes.
TagConstraint(T) == TRUE

\* order_by("-name"): rows of equal name come in an order the database picks.
OrderByNameDesc(S) ==
    {s \in [1..Cardinality(S) -> S] :
        /\ \A i, j \in DOMAIN s : i # j => s[i] # s[j]
        /\ \A i, j \in DOMAIN s :
               i < j => NameRank(tags[s[i]].name) >= NameRank(tags[s[j]].name)}

\* TagSerializer.Meta: fields id (read-only) and name.
\* (TagWritableWithUser: a Meta.fields that also declared the owner.)
TagWritableWithUser == {"name", "user"}
TagWritableFields == {"name"}
TagToInternalValue(P) == [k \in (DOMAIN P) \cap TagWritableFields |-> P[k]]
TagIsValid(P, partial) == partial \/ "name" \in DOMAIN P

\* The mixins of TagViewSet: destroy, update (with partial_update) and list.
TagActions == {"list", "update", "partial_update", "destroy"}

\* GET /api/recipe/tags/, with s the order the rows come in
TagListResult(c, s) ==
    IF ~IsAuthenticated(c) THEN ReadOnly(Unauthorized)
    ELSE ReadOnly(Ok([i \in DOMAIN s |-> TagData(tags, s[i])]))

\* PUT (partial = FALSE) and PATCH (partial = TRUE) /api/recipe/tags/{id}/
TagUpdateResult(c, id, P, partial) ==
    IF ~IsAuthenticated(c) THEN ReadOnly(Unauthorized)
    ELSE IF id \notin TagViewSet_get_queryset(c) THEN ReadOnly(NotFound)
    ELSE IF ~TagIsValid(P, partial) THEN ReadOnly(BadRequest)
    ELSE LET T == [tags EXCEPT ![id] = UpdateInstance(@, TagToInternalValue(P))]
         IN IF ~TagConstraint(T) THEN ReadOnly(ServerError)
            ELSE Outcome(Ok(<<TagData(T, id)>>), [Db EXCEPT !.tags = T])

\* DELETE /api/recipe/tags/{id}/: the row and its rows of the association
\* table go, the recipes stay.
TagDestroyResult(c, id) ==
    IF ~IsAuthenticated(c) THEN ReadOnly(Unauthorized)
    ELSE IF id \notin TagViewSet_get_queryset(c) THEN ReadOnly(NotFound)
    ELSE Outcome(NoContent,
                 [Db EXCEPT !.tags = [t \in (DOMAIN tags) \ {id} |-> tags[t]],
                            !.recipe_tags = {l \in recipe_tags : l[2] # id}])

\* POST /api/recipe/tags/ (action "create") and GET /api/recipe/tags/{id}/
\* (action "retrieve"): authentication runs first, then the method has no
\* handler on this viewset.
TagUnsupportedResult(c, action) ==
    IF ~IsAuthenticated(c) THEN ReadOnly(Unauthorized) ELSE ReadOnly(MethodNotAllowed)

\* ------------------------------------------------------------------ actions
Init ==
    /\ recipes = <<>>
    /\ tags = <<>>
    /\ recipe_tags = {}
    /\ nextRecipeId = 1
    /\ nextTagId = 1
    /\ status = 0
    /\ inflight = <<>>

RecipeList(c) ==
    /\ c \in Clients
    /\ Apply(RecipeListResult(c))

RecipeRetrieve(c, id) ==
    /\ c \in Clients
    /\ Apply(RecipeRetrieveResult(c, id))

\* The guards keep the ids handed out within the bounds.
RecipeCreate(c, P) ==
    /\ nextRecipeId <= MaxRecipes
    /\ \E atomic \in AtomicRequests :
           LET r == RecipeCreateResult(c, P, atomic)
           IN /\ r.db.nextTagId <= MaxTags + 1
              /\ Apply(r)

RecipeUpdate(c, id, P, partial) ==
    /\ c \in Clients
    /\ Apply(RecipeUpdateResult(c, id, P, partial))

RecipeDestroy(c, id) ==
    /\ c \in Clients
    /\ Apply(RecipeDestroyResult(c, id))

TagList(c) ==
    /\ c \in Clients
    /\ \E s \in OrderByNameDesc(TagViewSet_get_queryset(c)) : Apply(TagListResult(c, s))

TagUpdate(c, id, P, partial) ==
    /\ c \in Clients
    /\ Apply(TagUpdateResult(c, id, P, partial))

TagDestroy(c, id) ==
    /\ c \in Clients
    /\ Apply(TagDestroyResult(c, id))

TagUnsupported(c, action) ==
    /\ action \notin TagActions
    /\ Apply(TagUnsupportedResult(c, action))

\* ------------------------------------------------------------ request inputs
TagLists == SeqsUpTo(Names, MaxTagList)
FullAttrs(v) == [k \in Fields |-> v]
WithUser(a, x) == [k \in (DOMAIN a) \cup {"user"} |-> IF k = "user" THEN x ELSE a[k]]
WithTags(a, ts) == [attrs |-> a, hasTags |-> TRUE, tags |-> ts]
NoTags(a) == [attrs |-> a, hasTags |-> FALSE, tags |-> <<>>]

\* Clients write their own name as the text of a column.
OwnAttrs(c, keys) == [k \in keys |-> c]

\* Create payloads of client c: the columns of the tests' tagged payloads
\* (title, time_minutes, price) with every tags list, the same without tags,
\* a required column missing, an owner field.
CreatePayloads(c) ==
    IF c = Anon THEN {NoTags(OwnAttrs(c, Required))} ELSE
    {WithTags(OwnAttrs(c, Required), ts) : ts \in TagLists}
    \cup {NoTags(OwnAttrs(c, Required)), NoTags(OwnAttrs(c, {"title"})),
          WithTags(WithUser(OwnAttrs(c, Required), "u2"), <<"Thai">>)}

\* Update payloads of client c.  PATCH: a title, a non-numeric column.  PUT:
\* the required columns with an owner field, the same with a nested tags
\* list.  The body of a request without a token is never read: one payload.
UpdatePayloads(c, partial) ==
    IF c = Anon THEN {NoTags(OwnAttrs(c, {"title"}))}
    ELSE IF partial
    THEN {NoTags(OwnAttrs(c, {"title"})), NoTags([k \in {"price"} |-> Bad])}
    ELSE {NoTags(WithUser(OwnAttrs(c, Required), "u2")),
          WithTags(OwnAttrs(c, Required), <<"Thai">>)}

\* Tag payloads.  PATCH: a name.  PUT: no name, a name with an owner field.
TagPayloads(c, partial) ==
    IF c = Anon THEN {[k \in {"name"} |-> "Thai"]}
    ELSE IF partial
    THEN {[k \in {"name"} |-> n] : n \in Names}
    ELSE {<<>>, [k \in {"name", "user"} |-> IF k = "user" THEN "u2" ELSE "Thai"]}

Next ==
    \/ \E c \in Clients : RecipeList(c)
    \/ \E c \in Clients, id \in RecipeIds : RecipeRetrieve(c, id)
    \/ \E c \in Clients : \E P \in CreatePayloads(c) : RecipeCreate(c, P)
    \/ \E c \in Clients, id \in RecipeIds, partial \in BOOLEAN :
           \E P \in UpdatePayloads(c, partial) : RecipeUpdate(c, id, P, partial)
    \/ \E c \in Clients, id \in RecipeIds : RecipeDestroy(c, id)
    \/ \E c \in Clients : TagList(c)
    \/ \E c \in Clients, id \in TagIds, partial \in BOOLEAN :
           \E P \in TagPayloads(c, partial) : TagUpdate(c, id, P, partial)
    \/ \E c \in Clients, id \in TagIds : TagDestroy(c, id)
    \/ \E c \in Clients, action \in {"create", "retrieve"} : TagUnsupported(c, action)

Spec == Init /\ [][Next]_vars

\* ------------------------------------------------- the scalar columns alone
\* Tagged recipes of one user, then updates that rewrite the scalar columns
\* one at a time (PATCH) or all at once (PUT), some with an owner field.
FieldPatchPayloads ==
    {NoTags([k \in {f} |-> "y"]) : f \in {"title", "time_minutes"}}
    \cup {NoTags(WithUser([k \in {"link"} |-> "y"], "u2")), NoTags([k \in {"price"} |-> Bad])}
FieldPutPayloads ==
    {NoTags(FullAttrs("x")), NoTags(WithUser([k \in Required |-> "y"], "u2")),
     NoTags([k \in {"title", "link"} |-> "y"])}

NextFields ==
    \/ RecipeCreate("u1", WithTags(FullAttrs("x"), <<"Thai">>))
    \/ \E id \in RecipeIds, P \in FieldPatchPayloads : RecipeUpdate("u1", id, P, TRUE)
    \/ \E id \in RecipeIds, P \in FieldPutPayloads : RecipeUpdate("u1", id, P, FALSE)

SpecFields == Init /\ [][NextFields]_vars

\* ------------------------------------------------ concurrent create requests
\* Two create-recipe requests in flight, each a sequence of statements of
\* RecipeSerializer.create run against the shared tables: the insert of the
\* recipe, then per tag the get of get_or_create, its insert when the get
\* found no row, and the add to recipe.tags.
Reqs == {"q1", "q2"}
Idle == [pc |-> "idle", user |-> Anon, rid |-> 0, names |-> <<>>, todo |-> <<>>, tag |-> 0]

InitConc ==
    /\ recipes = <<>>
    /\ tags = <<>>
    /\ recipe_tags = {}
    /\ nextRecipeId = 1
    /\ nextTagId = 1
    /\ status = 0
    /\ inflight = [q \in Reqs |-> Idle]

\* perform_create and Recipe.objects.create (the first statement of create)
ConcCreateRecipe(q, c, ts) ==
    /\ inflight[q].pc = "idle"
    /\ nextRecipeId <= MaxRecipes
    /\ recipes' = recipes @@
           (nextRecipeId :> NewInstance(perform_create(ToInternalValue(NoTags(OwnAttrs(c, Required))), c)))
    /\ nextRecipeId' = nextRecipeId + 1
    /\ inflight' = [inflight EXCEPT ![q] =
           [pc |-> IF ts = <<>> THEN "done" ELSE "get", user |-> c,
            rid |-> nextRecipeId, names |-> ts, todo |-> ts, tag |-> 0]]
    /\ status' = IF ts = <<>> THEN Created(None).status ELSE status
    /\ UNCHANGED <<tags, recipe_tags, nextTagId>>

\* get_or_create: self.get(user=auth_user, name=...)
ConcGet(q) ==
    /\ inflight[q].pc = "get"
    /\ LET found == TagLookup(tags, inflight[q].user, Head(inflight[q].todo))
       IN IF Cardinality(found) > 1
          THEN /\ inflight' = [inflight EXCEPT ![q].pc = "failed"]
               /\ status' = ServerError.status
          ELSE IF found = {}
          THEN /\ inflight' = [inflight EXCEPT ![q].pc = "insert"]
               /\ status' = status
          ELSE /\ inflight' = [inflight EXCEPT ![q].pc = "add",
                                                ![q].tag = CHOOSE t \in found : TRUE]
               /\ status' = status
    /\ UNCHANGED store

\* get_or_create: self.create(user=auth_user, name=...) after DoesNotExist
ConcInsert(q) ==
    /\ inflight[q].pc = "insert"
    /\ nextTagId <= MaxTags
    /\ LET T == tags @@ (nextTagId :> [user |-> inflight[q].user, name |-> Head(inflight[q].todo)])
       IN IF TagConstraint(T)
          THEN /\ tags' = T
               /\ nextTagId' = nextTagId + 1
               /\ inflight' = [inflight EXCEPT ![q].pc = "add", ![q].tag = nextTagId]
          ELSE \* IntegrityError: get_or_create looks the row up again
               /\ inflight' = [inflight EXCEPT ![q].pc = "get"]
               /\ UNCHANGED <<tags, nextTagId>>
    /\ UNCHANGED <<recipes, recipe_tags, nextRecipeId, status>>

\* recipe.tags.add(tag_obj), then the next tag or the 201 response
ConcAdd(q) ==
    /\ inflight[q].pc = "add"
    /\ recipe_tags' = recipe_tags \cup {<<inflight[q].rid, inflight[q].tag>>}
    /\ inflight' = [inflight EXCEPT ![q].todo = Tail(@),
                                    ![q].pc = IF Tail(inflight[q].todo) = <<>> THEN "done" ELSE "get"]
    /\ status' = IF Tail(inflight[q].todo) = <<>> THEN Created(None).status ELSE status
    /\ UNCHANGED <<recipes, tags, nextRecipeId, nextTagId>>

NextConc ==
    \/ \E q \in Reqs, c \in Users, ts \in TagLists : ConcCreateRecipe(q, c, ts)
    \/ \E q \in Reqs : ConcGet(q)
    \/ \E q \in Reqs : ConcInsert(q)
    \/ \E q \in Reqs : ConcAdd(q)

SpecConc == InitConc /\ [][NextConc]_vars
\* =================================================================== claims
\* Every row of a recipe body, and every tag nested in it, belongs to c.
RecipeRowsOwnedBy(d, c) ==
    \A i \in DOMAIN d :
        /\ recipes[d[i].id]["user"] = c
        /\ \A t \in d[i].tags : tags[t.id].user = c
TagRowsOwnedBy(d, c) == \A i \in DOMAIN d : tags[d[i].id].user = c

C9_TagsShareOwner ==
    \A l \in recipe_tags :
        /\ l[1] \in DOMAIN recipes
        /\ l[2] \in DOMAIN tags
        /\ recipes[l[1]]["user"] = tags[l[2]].user

\* Both users hold a recipe tagged with a tag of the same name.
C9_Witness ==
    \E l1 \in recipe_tags, l2 \in recipe_tags :
        /\ recipes[l1[1]]["user"] = "u1"
        /\ recipes[l2[1]]["user"] = "u2"
        /\ tags[l1[2]].name = tags[l2[2]].name

\* C10 (as claimed): no user owns two tags of the same name.
C10_UniqueTagNames ==
    \A t1 \in DOMAIN tags, t2 \in DOMAIN tags :
        (tags[t1].user = tags[t2].user /\ tags[t1].name = tags[t2].name) => t1 = t2
\* C7: a request without a valid token, whatever the operation, the id
\* (existing, of any owner, or not existing) and the payload, answers 401
\* with an empty body and leaves the recipes, tags and associations as they
\* are.
C7_Unauthenticated ==
    \A c \in Clients \ Users :
        /\ RecipeListResult(c) = ReadOnly(Unauthorized)
        /\ \A s \in OrderByNameDesc(TagViewSet_get_queryset(c)) :
               TagListResult(c, s) = ReadOnly(Unauthorized)
        /\ \A a \in {"create", "retrieve"} : TagUnsupportedResult(c, a) = ReadOnly(Unauthorized)
        /\ \A u \in Clients : \A P \in CreatePayloads(u) : \A atomic \in AtomicRequests :
               RecipeCreateResult(c, P, atomic) = ReadOnly(Unauthorized)
        /\ \A id \in RecipeIds :
               /\ RecipeRetrieveResult(c, id) = ReadOnly(Unauthorized)
               /\ RecipeDestroyResult(c, id) = ReadOnly(Unauthorized)
               /\ \A u \in Clients : \A partial \in BOOLEAN : \A P \in UpdatePayloads(u, partial) :
                      RecipeUpdateResult(c, id, P, partial) = ReadOnly(Unauthorized)
        /\ \A t \in TagIds :
               /\ TagDestroyResult(c, t) = ReadOnly(Unauthorized)
               /\ \A u \in Clients : \A partial \in BOOLEAN : \A P \in TagPayloads(u, partial) :
                      TagUpdateResult(c, t, P, partial) = ReadOnly(Unauthorized)

\* A 401 was answered while recipes and tags of both users are stored and an
\* id of each kind is already deleted.
C7_Witness ==
    /\ status = 401
    /\ \E r \in DOMAIN recipes : recipes[r]["user"] = "u1"
    /\ \E t \in DOMAIN tags : tags[t].user = "u2"
    /\ \E id \in RecipeIds : id < nextRecipeId /\ id \notin DOMAIN recipes

\* C8: the tag endpoints never add a Tag row, and neither does any recipe
\* operation but create: list, the unsupported create and retrieve (405),
\* update and delete leave the set of tag ids as it is or smaller; a tag
\* update answers 200 only for a tag of the requester and then changes nothing
\* but that tag's name (to the supplied name, if one is supplied), and
\* otherwise changes nothing.
C8_TagEndpoints ==
    \A c \in Clients :
        /\ \A s \in OrderByNameDesc(TagViewSet_get_queryset(c)) : TagListResult(c, s).db = Db
        /\ \A a \in {"create", "retrieve"} :
               /\ TagUnsupportedResult(c, a).db = Db
               /\ TagUnsupportedResult(c, a).response.status \in {401, 405}
        /\ \A t \in TagIds :
               /\ DOMAIN TagDestroyResult(c, t).db.tags \subseteq DOMAIN tags
               /\ \A partial \in BOOLEAN : \A P \in TagPayloads(c, partial) :
                      LET r == TagUpdateResult(c, t, P, partial)
                      IN IF r.response.status = 200
                         THEN /\ t \in DOMAIN tags
                              /\ tags[t].user = c
                              /\ r.db = [Db EXCEPT !.tags[t].name =
                                            IF "name" \in DOMAIN P THEN P["name"] ELSE @]
                         ELSE r.db = Db
        /\ RecipeListResult(c).db.tags = tags
        /\ \A id \in RecipeIds :
               /\ RecipeRetrieveResult(c, id).db.tags = tags
               /\ RecipeDestroyResult(c, id).db.tags = tags
               /\ \A partial \in BOOLEAN : \A P \in UpdatePayloads(c, partial) :
                      RecipeUpdateResult(c, id, P, partial).db.tags = tags

\* A tag update was answered 200 and a user holds two tags of one name, one
\* of them attached to a recipe: a rename has taken place.
C8_Witness ==
    /\ status = 200
    /\ \E t1 \in DOMAIN tags, t2 \in DOMAIN tags :
           /\ t1 # t2
           /\ tags[t1] = tags[t2]
           /\ \E l \in recipe_tags : l[2] = t1
\* C3 (as claimed): in every reachable state, a create by user c with the
\* tags list ts answers 201; for every distinct name of ts the new recipe is
\* attached to exactly one tag of c of that name, the one c already owned if
\* there was one and a new row otherwise; the tags of c grow by the number of
\* distinct names c did not own; the rows that existed, of any owner, and the
\* associations of the other recipes stay as they are, and every new row is
\* owned by c.
C3_TagReconciliation ==
    \A c \in Users : \A ts \in TagLists : \A atomic \in AtomicRequests :
        LET r == RecipeCreateResult(c, WithTags(OwnAttrs(c, Required), ts), atomic)
            rid == nextRecipeId
            linked == {l[2] : l \in {m \in r.db.recipe_tags : m[1] = rid}}
            owned(T) == {t \in DOMAIN T : T[t].user = c}
            fresh == {n \in Range(ts) : TagLookup(tags, c, n) = {}}
        IN /\ r.response.status = 201
           /\ rid \in DOMAIN r.db.recipes
           /\ r.db.recipes[rid]["user"] = c
           /\ linked \subseteq DOMAIN r.db.tags
           /\ Cardinality(linked) = Cardinality(Range(ts))
           /\ \A n \in Range(ts) :
                  \E t \in linked :
                      /\ r.db.tags[t] = [user |-> c, name |-> n]
                      /\ IF n \in fresh THEN t \notin DOMAIN tags
                         ELSE t \in TagLookup(tags, c, n)
           /\ Cardinality(owned(r.db.tags)) = Cardinality(owned(tags)) + Cardinality(fresh)
           /\ \A t \in DOMAIN tags : t \in DOMAIN r.db.tags /\ r.db.tags[t] = tags[t]
           /\ \A t \in (DOMAIN r.db.tags) \ DOMAIN tags : r.db.tags[t].user = c
           /\ {m \in r.db.recipe_tags : m[1] # rid} = recipe_tags

\* C6: a delete of a recipe by its owner answers 204 and leaves the tables as
\* they were but for that recipe's row and its association rows (every Tag
\* row, every other recipe and the id counters are kept); and an id once
\* deleted is never stored again, is in no user's recipe list and answers 404
\* on retrieve.
Gone(id) == id < nextRecipeId /\ id \notin DOMAIN recipes
DestroyFrame ==
    \A id \in DOMAIN recipes :
        LET r == RecipeDestroyResult(recipes[id]["user"], id)
        IN /\ r.response = NoContent
           /\ r.db = [Db EXCEPT !.recipes = [x \in (DOMAIN recipes) \ {id} |-> recipes[x]],
                                !.recipe_tags = {l \in recipe_tags : l[1] # id}]
GoneIsAbsent ==
    \A id \in RecipeIds :
        Gone(id) =>
            \A c \in Users :
                /\ RecipeRetrieveResult(c, id).response.status = 404
                /\ \A i \in DOMAIN RecipeListResult(c).response.data :
                       RecipeListResult(c).response.data[i].id # id
GoneStaysGone == \A id \in RecipeIds : Gone(id) => Gone(id)'
C6_DeleteRecipe == [](DestroyFrame /\ GoneIsAbsent) /\ [][GoneStaysGone]_vars

\* A 204 was answered and no tag was ever deleted, so a recipe was; its id is
\* gone, a tag that belonged to it is still stored, unattached, and another
\* recipe is still stored with its tag.
C6_Witness ==
    /\ status = 204
    /\ nextTagId = Cardinality(DOMAIN tags) + 1
    /\ \E id \in RecipeIds : Gone(id)
    /\ \E t \in DOMAIN tags : \A l \in recipe_tags : l[2] # t
    /\ recipe_tags # {}

\* The attribute maps a client can send for the scalar columns: every subset
\* of them, written with one value.
PatchAttrs == UNION {[F -> {v}] : F \in SUBSET Fields, v \in {"x", "z"}}

C5_PartialUpdateFrame ==
    \A id \in DOMAIN recipes : \A a \in PatchAttrs :
        LET c == recipes[id]["user"]
            r == RecipeUpdateResult(c, id, NoTags(a), TRUE)
        IN /\ r.response.status = 200
           /\ DOMAIN r.db.recipes = DOMAIN recipes
           /\ \A k \in Fields :
                  r.db.recipes[id][k] = IF k \in DOMAIN a THEN a[k] ELSE recipes[id][k]
           /\ r.db.recipes[id]["user"] = c
           /\ \A o \in (DOMAIN recipes) \ {id} : r.db.recipes[o] = recipes[o]
           /\ r.db.tags = tags
           /\ r.db.recipe_tags = recipe_tags
           /\ r.db.nextRecipeId = nextRecipeId
           /\ r.db.nextTagId = nextTagId
           /\ r.response.data = <<RecipeData(r.db.recipes, tags, recipe_tags, id)>>

\* A PATCH was answered 200 on a recipe that now differs from its created
\* row in some columns only, beside an untouched recipe, both still tagged.
C5_Witness ==
    /\ status = 200
    /\ \E id \in DOMAIN recipes, o \in DOMAIN recipes :
           /\ recipes[id]["title"] = "y"
           /\ recipes[id]["time_minutes"] = "x"
           /\ recipes[id]["link"] = "x"
           /\ recipes[o] = NewInstance(perform_create(FullAttrs("x"), "u1"))
           /\ TagsOfRecipe(tags, recipe_tags, id) # {}
           /\ TagsOfRecipe(tags, recipe_tags, o) # {}

\* C2 (as claimed): when two create requests of one user have both finished,
\* every tag name both supplied is held by exactly one tag of that user and
\* both new recipes are attached to it.
C2_NoDuplicateTag ==
    (/\ inflight["q1"].pc = "done"
     /\ inflight["q2"].pc = "done"
     /\ inflight["q1"].user = inflight["q2"].user)
    => \A n \in Range(inflight["q1"].names) \cap Range(inflight["q2"].names) :
           LET held == TagLookup(tags, inflight["q1"].user, n)
           IN /\ Cardinality(held) = 1
              /\ \A t \in held :
                     /\ <<inflight["q1"].rid, t>> \in recipe_tags
                     /\ <<inflight["q2"].rid, t>> \in recipe_tags
====
